---- MODULE Spec2Model ----
(***************************************************************************)
(* News-Stock-Analyzer: the observe -> scrape -> clean -> predict -> act   *)
(* pipeline of StockAdvisorAgent (agent.py), the three scrapers and        *)
(* UnifiedScraper (scrapers.py) and TextCleaner (text_cleaner.py).         *)
(*                                                                         *)
(* Texts are sequences of one-character strings.  Floats are fixed-point   *)
(* integers in units of 1/SCALE: scores, tanh values and confidences are   *)
(* value*SCALE, investment_percent is percent*SCALE, investment_amount is  *)
(* dollars*SCALE.  Class probabilities are in percent.                     *)
(***************************************************************************)
EXTENDS Integers, Sequences, FiniteSets, TLC

(***************************************************************************)
(* Bounds of the model.                                                    *)
(***************************************************************************)
\* posts one subreddit search returns, at most
MaxPerSub == 5
\* tweets one recent-search returns, at most
MaxTweets == 3
\* articles one news response holds, at most
MaxArticles == 2
\* act called directly: scores up to MaxScoreSteps thresholds either side of 0
MaxScoreSteps == 10

(***************************************************************************)
(* Program constants.                                                      *)
(***************************************************************************)
\* fixed-point resolution of the model's floats
SCALE == 10000
\* agent.py:200 and :210, the thresholds 0.15 and -0.15 (times SCALE)
BuyThreshold == 1500
SellThreshold == -1500
\* agent.py:222, the fixed HOLD confidence 0.5 (times SCALE)
HoldConfidence == 5000
\* agent.py:134
BATCH_SIZE == 32
\* agent.py:280-282, at most 10 references per source
MaxRefs == 10
\* agent.py:60-62, the limits execute passes to scrape_all
RedditLimit == 30
TwitterLimit == 50
NewsLimit == 20
\* scrapers.py:106 and :348, the providers' page-size ceiling
ApiMax == 100
\* scrapers.py:368, the shortest article text kept
NewsMinLen == 20
\* agent.py:295, the default budget
DefaultBudget == 10000
\* ln 2 times SCALE, the constant of the logarithm's range reduction
Ln2 == 6931

Min(a, b) == IF a < b THEN a ELSE b
Abs(x) == IF x < 0 THEN -x ELSE x

(***************************************************************************)
(* Fixed-point numerics: np.log and np.tanh.                               *)
(***************************************************************************)
\* (x * y) / SCALE, rounded to nearest; x, y >= 0
MulFix(x, y) == (x * y + SCALE \div 2) \div SCALE

\* the odd-power series 2*(z + z^3/3 + z^5/5 + ...) of 2*atanh(z), 0 <= z <= 1/3
RECURSIVE AtanhSeries(_, _, _)
AtanhSeries(zpow, z2, k) ==
    IF zpow = 0 THEN 0
    ELSE (2 * zpow + k \div 2) \div k + AtanhSeries(MulFix(zpow, z2), z2, k + 2)

\* ln(f) for a fixed-point f in [1, 2): 2*atanh((f-1)/(f+1))
LnMantissa(f) ==
    LET z == ((f - SCALE) * SCALE + (f + SCALE) \div 2) \div (f + SCALE)
    IN  AtanhSeries(z, MulFix(z, z), 1)

\* ln(a/b) for integers a >= b >= 1: halve the ratio into [1, 2), add k*ln 2
RECURSIVE LnRatioGE(_, _)
LnRatioGE(a, b) ==
    IF a >= 2 * b THEN Ln2 + LnRatioGE(a, 2 * b)
    ELSE LnMantissa((a * SCALE + b \div 2) \div b)

\* np.log(a / b), a, b >= 1, times SCALE
LnRatio(a, b) == IF a >= b THEN LnRatioGE(a, b) ELSE -LnRatioGE(b, a)

\* e^(-r) for a fixed-point r in [0, ln 2]: the Taylor series, term by term
RECURSIVE ExpNegSeries(_, _, _)
ExpNegSeries(term, r, k) ==
    IF term = 0 THEN 0
    ELSE LET next == ((term * r) \div k + SCALE \div 2) \div SCALE
         IN  term - next + (IF next = 0 THEN 0
                            ELSE ExpNegSeries(((next * r) \div (k + 1) + SCALE \div 2) \div SCALE,
                                              r, k + 2))

\* e^(-y) for a fixed-point y >= 0: y = k*ln 2 + r, e^(-y) = 2^(-k) * e^(-r)
RECURSIVE ExpNeg(_)
ExpNeg(y) ==
    IF y >= Ln2 THEN (ExpNeg(y - Ln2) + 1) \div 2
    ELSE ExpNegSeries(SCALE, y, 1)

\* variant: the magnitude of tanh, without the sign
TanhMagnitude(x) ==
    LET e == ExpNeg(2 * Abs(x))
    IN  ((SCALE - e) * SCALE + (SCALE + e) \div 2) \div (SCALE + e)
\* np.tanh(x), times SCALE: sign(x) * (1 - e^(-2|x|)) / (1 + e^(-2|x|))
Tanh(x) ==
    LET e == ExpNeg(2 * Abs(x))
        t == ((SCALE - e) * SCALE + (SCALE + e) \div 2) \div (SCALE + e)
    IN  IF x < 0 THEN -t ELSE t

(***************************************************************************)
(* Characters and strings.  A text is a sequence of one-character strings. *)
(***************************************************************************)
UpperChars == <<"A","B","C","D","E","F","G","H","I","J","K","L","M",
                "N","O","P","Q","R","S","T","U","V","W","X","Y","Z">>
LowerChars == <<"a","b","c","d","e","f","g","h","i","j","k","l","m",
                "n","o","p","q","r","s","t","u","v","w","x","y","z">>
DigitChars == {"0","1","2","3","4","5","6","7","8","9"}
Range(q) == {q[i] : i \in DOMAIN q}
\* the glyphs emoji.replace_emoji removes
EmojiChars == {"<rocket>", "<moon>"}

IsAlnum(c) == c \in Range(UpperChars) \cup Range(LowerChars) \cup DigitChars
\* \w of the re module
IsWord(c) == IsAlnum(c) \/ c = "_"
\* \s of the re module, and what str.split() splits on
IsSpace(c) == c \in {" ", "\t", "\n"}

\* str.upper() and str.lower(), one character
UpperChar(c) ==
    IF c \in Range(LowerChars)
    THEN UpperChars[CHOOSE i \in DOMAIN LowerChars : LowerChars[i] = c] ELSE c
LowerChar(c) ==
    IF c \in Range(UpperChars)
    THEN LowerChars[CHOOSE i \in DOMAIN UpperChars : UpperChars[i] = c] ELSE c
Upper(s) == [i \in DOMAIN s |-> UpperChar(s[i])]

\* s[i:] starts with pre
HasPrefixAt(s, i, pre) ==
    /\ i + Len(pre) - 1 <= Len(s)
    /\ \A k \in 1..Len(pre) : s[i + k - 1] = pre[k]
\* sub in s
Contains(s, sub) == \E i \in 1..(Len(s) + 1) : HasPrefixAt(s, i, sub)
\* len(s.strip())
RECURSIVE LStripFrom(_, _)
LStripFrom(s, i) == IF i <= Len(s) /\ IsSpace(s[i]) THEN LStripFrom(s, i + 1) ELSE i
RECURSIVE RStripTo(_, _)
RStripTo(s, j) == IF j >= 1 /\ IsSpace(s[j]) THEN RStripTo(s, j - 1) ELSE j
StripLen(s) ==
    LET i == LStripFrom(s, 1)
        j == RStripTo(s, Len(s))
    IN  IF j < i THEN 0 ELSE j - i + 1

(***************************************************************************)
(* TextCleaner (text_cleaner.py).                                          *)
(***************************************************************************)
\* the first index >= i of s holding a character outside the class, or Len(s)+1
RECURSIVE SkipNonSpace(_, _)
SkipNonSpace(s, i) == IF i <= Len(s) /\ ~IsSpace(s[i]) THEN SkipNonSpace(s, i + 1) ELSE i
RECURSIVE SkipWord(_, _)
SkipWord(s, i) == IF i <= Len(s) /\ IsWord(s[i]) THEN SkipWord(s, i + 1) ELSE i

\* a match of http\S+|www\S+|https\S+ starts at i
UrlAt(s, i) ==
    \/ HasPrefixAt(s, i, <<"h","t","t","p">>) /\ i + 4 <= Len(s) /\ ~IsSpace(s[i + 4])
    \/ HasPrefixAt(s, i, <<"w","w","w">>) /\ i + 3 <= Len(s) /\ ~IsSpace(s[i + 3])

\* re.sub(r'http\S+|www\S+|https\S+', '', text)
RECURSIVE RemoveUrlsFrom(_, _)
RemoveUrlsFrom(s, i) ==
    IF i > Len(s) THEN <<>>
    ELSE IF UrlAt(s, i) THEN RemoveUrlsFrom(s, SkipNonSpace(s, i))
    ELSE <<s[i]>> \o RemoveUrlsFrom(s, i + 1)
remove_urls(text) == RemoveUrlsFrom(text, 1)

\* re.sub(mark + r'\w+', '', text) for mark = "@" or "#"
RECURSIVE RemoveTaggedFrom(_, _, _)
RemoveTaggedFrom(s, i, mark) ==
    IF i > Len(s) THEN <<>>
    ELSE IF s[i] = mark /\ i + 1 <= Len(s) /\ IsWord(s[i + 1])
         THEN RemoveTaggedFrom(s, SkipWord(s, i + 1), mark)
    ELSE <<s[i]>> \o RemoveTaggedFrom(s, i + 1, mark)
remove_mentions(text) == RemoveTaggedFrom(text, 1, "@")
remove_hashtags(text) == RemoveTaggedFrom(text, 1, "#")

remove_emojis(text) == SelectSeq(text, LAMBDA c : c \notin EmojiChars)

\* re.sub(r'[^a-zA-Z0-9\s\.\!\?]', '', text)
remove_special_chars(text) ==
    SelectSeq(text, LAMBDA c : IsAlnum(c) \/ IsSpace(c) \/ c \in {".", "!", "?"})

\* ' '.join(text.split())
RECURSIVE JoinWordsFrom(_, _, _)
JoinWordsFrom(s, i, first) ==
    LET a == LStripFrom(s, i)
        b == SkipNonSpace(s, a)
    IN  IF a > Len(s) THEN <<>>
        ELSE (IF first THEN <<>> ELSE <<" ">>) \o SubSeq(s, a, b - 1)
             \o JoinWordsFrom(s, b, FALSE)
normalize_whitespace(text) == JoinWordsFrom(text, 1, TRUE)

lowercase(text) == [i \in DOMAIN text |-> LowerChar(text[i])]

\* lines 64-70: each step works on the value the step before returned
clean_single_text(text) ==
    CHOOSE cleaned \in
        {lowercase(t6) : t6 \in
        {normalize_whitespace(t5) : t5 \in
        {remove_special_chars(t4) : t4 \in
        {remove_emojis(t3) : t3 \in
        {remove_hashtags(t2) : t2 \in
        {remove_mentions(t1) : t1 \in
        {remove_urls(text)}}}}}}} : TRUE

(***************************************************************************)
(* What the external providers hold: the content of posts, tweets and      *)
(* articles, by kind and position.                                         *)
(***************************************************************************)
\* a response is all of one kind, or cycles through the kinds
PostKinds == {"pos", "mix"}
TweetKinds == {"mix", "neg", "junk"}
\* the kind of the i-th entry of a response of kind k
KindAt(k, i) ==
    IF k # "mix" THEN k
    ELSE CASE i % 4 = 1 -> "pos"
           [] i % 4 = 2 -> "neg"
           [] i % 4 = 3 -> "short"
           [] OTHER     -> "junk"

\* a submission's title and selftext
PostTitle(k) ==
    CASE k = "pos"   -> <<"G","o","o","d"," ","b","u","y">>
      [] k = "neg"   -> <<"b","a","d"," ","s","e","l","l">>
      [] k = "short" -> <<"h","i">>
      [] OTHER       -> <<>>
PostSelftext(k) ==
    CASE k = "pos"   -> <<"n","o","w">>
      [] k = "neg"   -> <<"n","o","w","!">>
      [] OTHER       -> <<>>
\* a tweet's text
TweetText(k) ==
    CASE k = "pos"   -> <<"G","o","o","d"," ","b","u","y"," ","n","o","w"," ","$","A","B">>
      [] k = "neg"   -> <<"b","a","d"," ","s","e","l","l"," ","n","o","w">>
      [] k = "short" -> <<"h","i"," ","@","b","o","b">>
      [] OTHER       -> <<"<rocket>","$","$"," ","#","m","o","o","n">>
\* the i-th article of a news response: odd ones are real, even ones removed
ArticleTitle(i) ==
    IF i % 2 = 1 THEN <<"G","o","o","d"," ","e","a","r","n","i","n","g","s">>
    ELSE <<"[","R","e","m","o","v","e","d","]">>
ArticleDescription(i) ==
    IF i % 2 = 1 THEN <<"b","e","a","t"," ","f","o","r","e","c","a","s","t">>
    ELSE <<"[","R","e","m","o","v","e","d","]"," ","b","y"," ","p","u","b","l","i","s","h","e","r">>

(***************************************************************************)
(* RedditScraper.scrape_stock_subreddits (scrapers.py).                    *)
(***************************************************************************)
subreddits == <<"wallstreetbets", "stocks", "investing", "stocks", "options",
                "IndianStreetBets", "StockMarketIndia">>

\* what the provider answers: perSub posts of one kind for every subreddit,
\* and an error raised while subreddit failAt is being read (0: none)
RedditWorlds ==
    [perSub : 0..MaxPerSub, kind : PostKinds, failAt : 0..Len(subreddits)]

\* subreddit.search(stock_ticker, time_filter='week', limit=limit), as dicts
SearchPosts(w, name, limit) ==
    [i \in 1..Min(w.perSub, limit) |->
        [text      |-> PostTitle(KindAt(w.kind, i)) \o <<" ">> \o PostSelftext(KindAt(w.kind, i)),
         source    |-> "reddit",
         subreddit |-> name,
         id        |-> i]]

\* variant: an except branch that returns what was collected so far
RedditOnErrorKeepsPosts(posts) == posts
\* the except branch: what the scraper returns when the provider raised,
\* having collected posts so far
RedditOnError(posts) == <<>>

RECURSIVE RedditLoop(_, _, _, _)
RedditLoop(w, j, posts, limit) ==
    IF j > Len(subreddits) THEN posts
    ELSE IF w.failAt = j THEN RedditOnError(posts)
    ELSE RedditLoop(w, j + 1, posts \o SearchPosts(w, subreddits[j], limit), limit)

scrape_stock_subreddits(w, limit) == RedditLoop(w, 1, <<>>, limit)

(***************************************************************************)
(* TwitterScraper.scrape_tweets (scrapers.py).                             *)
(***************************************************************************)
\* the provider holds n tweets of one kind, or the request raises
TwitterWorlds == [n : 0..MaxTweets, kind : TweetKinds, fail : BOOLEAN]

scrape_tweets(w, max_results) ==
    IF w.fail THEN <<>>
    ELSE [i \in 1..Min(w.n, Min(max_results, ApiMax)) |->
            [text   |-> TweetText(KindAt(w.kind, i)),
             source |-> "twitter",
             id     |-> i]]

(***************************************************************************)
(* NewsScraper.scrape_financial_news (scrapers.py).                        *)
(***************************************************************************)
\* the response: its HTTP status, the payload's status, n articles, and the
\* article whose publishedAt does not parse (0: none); or the request raises
NewsWorlds ==
    [http : {200, 500}, status : {"ok", "error"}, n : 0..MaxArticles,
     badDateAt : 0..MaxArticles, raises : BOOLEAN]

ArticleText(i) == ArticleTitle(i) \o <<" ">> \o ArticleDescription(i)
\* len(text.strip()) < 20 or '[Removed]' in text
SkipArticle(text) ==
    StripLen(text) < NewsMinLen \/ Contains(text, <<"[","R","e","m","o","v","e","d","]">>)

\* the source tag the scraper gives an article
NewsSourceTag == "news"

RECURSIVE NewsLoop(_, _, _, _)
NewsLoop(w, i, articles, pageSize) ==
    IF i > Min(w.n, pageSize) THEN articles
    ELSE IF SkipArticle(ArticleText(i)) THEN NewsLoop(w, i + 1, articles, pageSize)
    ELSE IF w.badDateAt = i THEN <<>>
    ELSE NewsLoop(w, i + 1,
                  Append(articles, [text   |-> ArticleText(i),
                                    source |-> NewsSourceTag,
                                    title  |-> ArticleTitle(i),
                                    id     |-> i]),
                  pageSize)

scrape_financial_news(hasKey, w, max_results) ==
    IF ~hasKey THEN <<>>
    ELSE IF w.raises THEN <<>>
    ELSE IF w.http # 200 \/ w.status # "ok" THEN <<>>
    ELSE NewsLoop(w, 1, <<>>, Min(max_results, ApiMax))

(***************************************************************************)
(* Python dicts: functions from key strings to values.                     *)
(***************************************************************************)
EmptyDict == [k \in {} |-> 0]
Put(d, key, v) == [k \in DOMAIN d \cup {key} |-> IF k = key THEN v ELSE d[k]]
Get(d, key, default) == IF key \in DOMAIN d THEN d[key] ELSE default
\* variant: the new items put in front of the list
ExtendInFront(all, new) == new \o all
\* list.extend
Extend(all, new) == all \o new

(***************************************************************************)
(* UnifiedScraper.scrape_all, StockAdvisorAgent (agent.py): inputs.        *)
(***************************************************************************)
\* the calls of execute: a ticker as typed and a budget
Calls ==
    {[stock_ticker |-> <<"a","b">>, budget |-> DefaultBudget],
     [stock_ticker |-> <<"A","B">>, budget |-> 0],
     [stock_ticker |-> <<"A","b">>, budget |-> -DefaultBudget]}
Adapters == {"reddit", "twitter", "news"}

\* the provider-side failures of scrapers.py: the except branches and the
\* branches that log an error
RedditFails(w) == w.failAt # 0
TwitterFails(w) == w.fail
NewsFails(w, max_results) ==
    \/ w.raises
    \/ w.http # 200
    \/ w.status # "ok"
    \/ /\ w.badDateAt \in 1..Min(w.n, Min(max_results, ApiMax))
       /\ ~SkipArticle(ArticleText(w.badDateAt))

(***************************************************************************)
(* StockAdvisorAgent.clean and TextCleaner.clean_scraper_output.           *)
(***************************************************************************)
\* adds 'cleaned_text' to every item that has a 'text', in place
clean_scraper_output(raw_data) ==
    [i \in DOMAIN raw_data |->
        IF "text" \in DOMAIN raw_data[i]
        THEN Put(raw_data[i], "cleaned_text", clean_single_text(raw_data[i].text))
        ELSE raw_data[i]]

\* variant: a filter that keeps empty cleaned texts too
KeepAny(item) == "cleaned_text" \in DOMAIN item
\* the filter of agent.py:82-83: the item has a cleaned_text and it is truthy
KeepCleaned(item) == "cleaned_text" \in DOMAIN item /\ Len(item.cleaned_text) > 0

RECURSIVE CleanedTextsFrom(_, _)
CleanedTextsFrom(data, i) ==
    IF i > Len(data) THEN <<>>
    ELSE (IF KeepCleaned(data[i]) THEN <<data[i].cleaned_text>> ELSE <<>>)
         \o CleanedTextsFrom(data, i + 1)
CleanedTexts(cleaned_data) == CleanedTextsFrom(cleaned_data, 1)

(***************************************************************************)
(* StockAdvisorAgent.predict.                                              *)
(***************************************************************************)
\* the pretrained classifier, [negative, neutral, positive] in percent: a
\* function of the text alone
Classify(text) ==
    IF Len(text) > 0 /\ text[1] = "g" THEN <<5, 15, 80>>
    ELSE IF Len(text) > 0 /\ text[1] = "b" THEN <<80, 15, 5>>
    ELSE IF Len(text) > 0 /\ text[1] = "e" THEN <<50, 0, 50>>
    ELSE <<20, 60, 20>>
predict_batch_scores(texts) == [i \in DOMAIN texts |-> Classify(texts[i])]

\* range(0, len(cleaned_texts), BATCH_SIZE)
NumBatches(n) == (n + BATCH_SIZE - 1) \div BATCH_SIZE
\* variant: slices that run one text into the next batch
BatchOverlapping(texts, b) ==
    SubSeq(texts, (b - 1) * BATCH_SIZE + 1, Min(b * BATCH_SIZE + 1, Len(texts)))
\* cleaned_texts[i:i + BATCH_SIZE] for the b-th batch, b >= 1
Batch(texts, b) ==
    SubSeq(texts, (b - 1) * BATCH_SIZE + 1, Min(b * BATCH_SIZE, Len(texts)))

\* variant: a probability of exactly 0.5 counts too
RECURSIVE CountAtLeast(_, _, _)
CountAtLeast(probs, c, i) ==
    IF i > Len(probs) THEN 0
    ELSE (IF probs[i][c] >= 50 THEN 1 ELSE 0) + CountAtLeast(probs, c, i + 1)
\* np.sum(all_probs[:, c] > 0.5), c counted from 1
RECURSIVE CountAbove(_, _, _)
CountAbove(probs, c, i) ==
    IF i > Len(probs) THEN 0
    ELSE (IF probs[i][c] > 50 THEN 1 ELSE 0) + CountAbove(probs, c, i + 1)

\* variant: the ratio upside down
SentimentScoreInverted(positive_count, negative_count) ==
    LnRatio(1 + negative_count, 1 + positive_count)
\* np.log((1 + positive_count) / (1 + negative_count))
SentimentScore(positive_count, negative_count) ==
    LnRatio(1 + positive_count, 1 + negative_count)

\* lines 142-159: the four keys predict stores from all_probs
Aggregate(all_probs) ==
    LET positive_count == CountAbove(all_probs, 3, 1)
        negative_count == CountAbove(all_probs, 1, 1)
    IN  [sentiment_scores |-> [i \in DOMAIN all_probs |-> all_probs[i][3] - all_probs[i][1]],
         sentiment_score  |-> SentimentScore(positive_count, negative_count),
         positive_count   |-> positive_count,
         negative_count   |-> negative_count]

\* variant: an except branch that aggregates the batches scored so far
PredictOnErrorKeepsPartial(all_probs) ==
    IF Len(all_probs) = 0
    THEN [sentiment_scores |-> <<>>, sentiment_score |-> 0,
          positive_count |-> 0, negative_count |-> 0]
    ELSE Aggregate(all_probs)
\* the except branch, lines 166-171; all_probs is what the batches before
\* the error had yielded
PredictOnError(all_probs) ==
    [sentiment_scores |-> <<>>,
     sentiment_score  |-> 0,
     positive_count   |-> 0,
     negative_count   |-> 0]

\* lines 137-140, the scorer raising in batch failBatch (0: never)
RECURSIVE BatchLoop(_, _, _, _)
BatchLoop(texts, b, all_probs, failBatch) ==
    IF b > NumBatches(Len(texts)) THEN [ok |-> TRUE, all_probs |-> all_probs]
    ELSE IF b = failBatch THEN [ok |-> FALSE, all_probs |-> all_probs]
    ELSE BatchLoop(texts, b + 1,
                   Extend(all_probs, predict_batch_scores(Batch(texts, b))), failBatch)

\* the try block: loaded says that tokenizer, model and device are all set.
\* Without them the first batch raises; all_probs[:, 2] of an empty array
\* raises IndexError
PredictKeys(cleaned_texts, loaded, failBatch) ==
    LET r == BatchLoop(cleaned_texts, 1, <<>>, IF loaded THEN failBatch ELSE 1)
    IN  IF ~r.ok THEN PredictOnError(r.all_probs)
        ELSE IF Len(r.all_probs) = 0 THEN PredictOnError(r.all_probs)
        ELSE Aggregate(r.all_probs)

(***************************************************************************)
(* StockAdvisorAgent.act.                                                  *)
(***************************************************************************)
\* variant: the thresholds themselves count as BUY and SELL
ActionForInclusive(sentiment_score) ==
    IF sentiment_score >= BuyThreshold THEN "BUY"
    ELSE IF sentiment_score <= SellThreshold THEN "SELL"
    ELSE "HOLD"
\* lines 200, 210, 220
ActionFor(sentiment_score) ==
    IF sentiment_score > BuyThreshold THEN "BUY"
    ELSE IF sentiment_score < SellThreshold THEN "SELL"
    ELSE "HOLD"

\* variant: HOLD keeps the tanh allocation
AllocationUnforced(action, budget, tanh_value) ==
    [investment_amount |-> budget * tanh_value, investment_percent |-> tanh_value * 100]
\* lines 196-197 and 223-224: [investment_amount, investment_percent]
Allocation(action, budget, tanh_value) ==
    IF action = "HOLD" THEN [investment_amount |-> 0, investment_percent |-> 0]
    ELSE [investment_amount |-> budget * tanh_value, investment_percent |-> tanh_value * 100]

\* variant: HOLD reports the tanh magnitude too
ConfidenceUnforced(action, tanh_value) == Min(Abs(tanh_value), SCALE)
\* lines 202, 212, 222
Confidence(action, tanh_value) ==
    IF action = "HOLD" THEN HoldConfidence ELSE Min(Abs(tanh_value), SCALE)

\* the source tags act files an item under 'news' for, line 276
NewsRefTags == {"newsapi", "google_news"}

\* variant: items[-10:], the last ten
TakeRefsLast(items) == SubSeq(items, Len(items) - Min(MaxRefs, Len(items)) + 1, Len(items))
\* items[:min(10, len(items))]
TakeRefs(items) == SubSeq(items, 1, Min(MaxRefs, Len(items)))

BySource(raw_data, tags) ==
    SelectSeq(raw_data, LAMBDA item : Get(item, "source", "none") \in tags)

\* lines 274-283
References(raw_data) ==
    [reddit  |-> TakeRefs(BySource(raw_data, {"reddit"})),
     twitter |-> TakeRefs(BySource(raw_data, {"twitter"})),
     news    |-> TakeRefs(BySource(raw_data, NewsRefTags))]

\* the recommendation act leaves in state['recommendation']
Recommend(st, budget) ==
    LET sentiment_score == Get(st, "sentiment_score", 0)
        positive_count  == Get(st, "positive_count", 0)
        negative_count  == Get(st, "negative_count", 0)
        tanh_value      == Tanh(sentiment_score)
        action          == ActionFor(sentiment_score)
        alloc           == Allocation(action, budget, tanh_value)
    IN  [stock_ticker       |-> st.stock_ticker,
         action             |-> action,
         confidence         |-> Confidence(action, tanh_value),
         sentiment_score    |-> sentiment_score,
         positive_count     |-> positive_count,
         negative_count     |-> negative_count,
         investment_percent |-> alloc.investment_percent,
         investment_amount  |-> alloc.investment_amount,
         budget             |-> budget,
         reasoning          |-> [template       |-> action,
                                 score          |-> sentiment_score,
                                 positive_count |-> positive_count,
                                 negative_count |-> negative_count,
                                 stock_ticker   |-> st.stock_ticker],
         timestamp          |-> st.timestamp,
         data_points        |-> st.raw_data_count,
         references         |-> References(Get(st, "raw_data", <<>>))]

\* variant: the no-data return carries a message and no action
NoDataRecommendationNoAction(stock_ticker) ==
    [stock_ticker |-> stock_ticker,
     error        |-> "No data found for this stock"]
\* lines 311-315: the recommendation of a run that found no data
NoDataRecommendation(stock_ticker) ==
    [stock_ticker |-> stock_ticker,
     action       |-> "ERROR",
     reasoning    |-> [template |-> "No data found for this stock"]]

\* variant: execute without the empty-corpus return
NoDataNever(raw_data) == FALSE
\* line 309
NoData(raw_data) == Len(raw_data) = 0

(***************************************************************************)
(* State.                                                                  *)
(***************************************************************************)
VARIABLES
    pc,               \* where execute stands: idle, scrape_reddit, scrape_twitter,
                      \* scrape_news, scraped, cleaned, predicted, acted, done
    stock_ticker,     \* execute's argument
    budget,           \* execute's argument
    state,            \* the state dict threaded through the stages
    all_data,         \* scrape_all's accumulator
    reddit_data,      \* scrape_all's locals: what each adapter returned
    twitter_data,
    news_data,
    failed,           \* the adapters whose provider failed in this run
    scorer_failed,    \* the batch in which the scorer raised in this run (0: none)
    invoked,          \* the stages execute has called in this run, in order
    history,          \* self.history
    tokenizer_loaded, \* hasattr(self, 'tokenizer')
    model_loaded,     \* hasattr(self, 'model') and hasattr(self, 'device')
    news_api_key,     \* whether NEWS_API_KEY was set at construction
    runs,             \* execute calls so far; the clock behind datetime.now()
    loading,          \* what loading the model answers in this run, were it asked
    reader,           \* the list a caller of get_history holds
    analysis_history  \* st.session_state.analysis_history of the dashboard

vars == <<pc, stock_ticker, budget, state, all_data, reddit_data, twitter_data,
          news_data, failed, scorer_failed, invoked, history, tokenizer_loaded,
          model_loaded, news_api_key, runs, loading, reader,
          analysis_history>>

agent_vars == <<history, tokenizer_loaded, model_loaded, news_api_key>>
scrape_vars == <<all_data, reddit_data, twitter_data, news_data, failed>>

\* a caller that has not called get_history holds no list
NoList == [object |-> "none", at_return |-> <<>>]

\* StockAdvisorAgent.__init__, no run started
Init ==
    /\ pc = "idle"
    /\ stock_ticker = <<>>
    /\ budget = 0
    /\ state = EmptyDict
    /\ all_data = <<>>
    /\ reddit_data = <<>>
    /\ twitter_data = <<>>
    /\ news_data = <<>>
    /\ failed = {}
    /\ scorer_failed = 0
    /\ invoked = <<>>
    /\ history = <<>>
    /\ tokenizer_loaded = FALSE
    /\ model_loaded = FALSE
    /\ news_api_key \in BOOLEAN
    /\ runs = 0
    /\ loading = "unasked"
    /\ reader = NoList
    /\ analysis_history = <<>>

(***************************************************************************)
(* execute, stage by stage.                                                *)
(***************************************************************************)
\* execute is called with one of the calls C: observe, then scrape enters
\* scrape_all
ExecuteCalled(C) ==
    /\ \E c \in C :
        /\ stock_ticker' = c.stock_ticker
        /\ budget' = c.budget
        /\ state' = [stock_ticker |-> Upper(c.stock_ticker),
                     timestamp    |-> runs + 1,
                     status       |-> "observing"]
    /\ runs' = runs + 1
    /\ all_data' = <<>>
    /\ reddit_data' = <<>>
    /\ twitter_data' = <<>>
    /\ news_data' = <<>>
    /\ failed' = {}
    /\ scorer_failed' = 0
    /\ invoked' = <<"observe", "scrape">>
    /\ pc' = "scrape_reddit"
    /\ UNCHANGED agent_vars
    /\ loading' = "unasked"
    /\ UNCHANGED <<reader, analysis_history>>

\* the first call of execute on a new agent
Observe ==
    /\ pc = "idle"
    /\ runs = 0
    /\ ExecuteCalled(Calls)

\* scrape_all, lines 426-427
ScrapeRedditIn(W) ==
    /\ pc = "scrape_reddit"
    /\ \E w \in W :
        /\ reddit_data' = scrape_stock_subreddits(w, RedditLimit)
        /\ failed' = IF RedditFails(w) THEN failed \cup {"reddit"} ELSE failed
    /\ all_data' = Extend(all_data, reddit_data')
    /\ pc' = "scrape_twitter"
    /\ UNCHANGED <<stock_ticker, budget, state, twitter_data, news_data,
                   scorer_failed, invoked, runs>>
    /\ UNCHANGED agent_vars
    /\ UNCHANGED <<loading, reader, analysis_history>>

\* the reddit provider answers any of its worlds
ScrapeReddit == ScrapeRedditIn(RedditWorlds)

\* scrape_all, lines 430-431
ScrapeTwitterIn(W) ==
    /\ pc = "scrape_twitter"
    /\ \E w \in W :
        /\ twitter_data' = scrape_tweets(w, TwitterLimit)
        /\ failed' = IF TwitterFails(w) THEN failed \cup {"twitter"} ELSE failed
    /\ all_data' = Extend(all_data, twitter_data')
    /\ pc' = "scrape_news"
    /\ UNCHANGED <<stock_ticker, budget, state, reddit_data, news_data,
                   scorer_failed, invoked, runs>>
    /\ UNCHANGED agent_vars
    /\ UNCHANGED <<loading, reader, analysis_history>>

\* the twitter provider answers any of its worlds
ScrapeTwitter == ScrapeTwitterIn(TwitterWorlds)

\* scrape_all, lines 434-439, and scrape's lines 65-69
ScrapeNewsIn(W) ==
    /\ pc = "scrape_news"
    /\ \E w \in W :
        /\ news_data' = scrape_financial_news(news_api_key, w, NewsLimit)
        /\ failed' = IF news_api_key /\ NewsFails(w, NewsLimit)
                     THEN failed \cup {"news"} ELSE failed
    /\ all_data' = Extend(all_data, news_data')
    /\ state' = Put(Put(state, "raw_data", all_data'), "raw_data_count", Len(all_data'))
    /\ pc' = "scraped"
    /\ UNCHANGED <<stock_ticker, budget, reddit_data, twitter_data,
                   scorer_failed, invoked, runs>>
    /\ UNCHANGED agent_vars
    /\ UNCHANGED <<loading, reader, analysis_history>>

\* the news provider answers any of its worlds
ScrapeNews == ScrapeNewsIn(NewsWorlds)

\* execute, lines 309-316: no data, return without going on
ReturnNoData ==
    /\ pc = "scraped"
    /\ NoData(state.raw_data)
    /\ state' = Put(state, "recommendation", NoDataRecommendation(stock_ticker))
    /\ pc' = "done"
    /\ UNCHANGED <<stock_ticker, budget, scorer_failed, invoked, runs>>
    /\ UNCHANGED scrape_vars
    /\ UNCHANGED agent_vars
    /\ UNCHANGED <<loading, reader, analysis_history>>

\* clean, lines 78-89; the items of raw_data are the dicts clean_scraper_output
\* writes to, and cleaned_data is that same list
Clean ==
    /\ pc = "scraped"
    /\ ~NoData(state.raw_data)
    /\ LET cleaned_data == clean_scraper_output(state.raw_data)
       IN  state' = Put(Put(Put(state, "raw_data", cleaned_data),
                            "cleaned_data", cleaned_data),
                        "cleaned_texts", CleanedTexts(cleaned_data))
    /\ invoked' = Append(invoked, "clean")
    /\ pc' = "cleaned"
    /\ UNCHANGED <<stock_ticker, budget, scorer_failed, runs>>
    /\ UNCHANGED scrape_vars
    /\ UNCHANGED agent_vars
    /\ UNCHANGED <<loading, reader, analysis_history>>

\* predict, lines 98-173: the model is loaded on first use, which can fail
\* before the tokenizer is set ("none"), after it ("tokenizer") or not at all
Predict ==
    /\ pc = "cleaned"
    /\ \E load \in {"all", "tokenizer", "none"},
          failBatch \in 0..NumBatches(Len(state.cleaned_texts)) :
        /\ tokenizer_loaded' = (tokenizer_loaded \/ load # "none")
        /\ model_loaded' = (model_loaded \/ (~tokenizer_loaded /\ load = "all"))
        /\ LET loaded == tokenizer_loaded' /\ model_loaded'
                         /\ (tokenizer_loaded \/ load = "all")
               keys   == PredictKeys(state.cleaned_texts, loaded, failBatch)
           IN  /\ state' = Put(Put(Put(Put(state,
                                "sentiment_scores", keys.sentiment_scores),
                                "sentiment_score", keys.sentiment_score),
                                "positive_count", keys.positive_count),
                                "negative_count", keys.negative_count)
               /\ scorer_failed' = IF loaded THEN failBatch ELSE 1
        /\ loading' = load
    /\ invoked' = Append(invoked, "predict")
    /\ pc' = "predicted"
    /\ UNCHANGED <<stock_ticker, budget, history, news_api_key, runs>>
    /\ UNCHANGED scrape_vars
    /\ UNCHANGED <<reader, analysis_history>>

\* act, lines 186-293
Act ==
    /\ pc = "predicted"
    /\ state' = Put(state, "recommendation", Recommend(state, budget))
    /\ invoked' = Append(invoked, "act")
    /\ pc' = "acted"
    /\ UNCHANGED <<stock_ticker, budget, scorer_failed, runs>>
    /\ UNCHANGED scrape_vars
    /\ UNCHANGED agent_vars
    /\ UNCHANGED <<loading, reader, analysis_history>>

\* variant: the recommendation is stored and returned without act being called
StoreBeforeAct ==
    /\ pc = "predicted"
    /\ state' = Put(state, "recommendation", Recommend(state, budget))
    /\ history' = Append(history, state'.recommendation)
    /\ pc' = "done"
    /\ UNCHANGED <<stock_ticker, budget, scorer_failed, invoked, runs,
                   tokenizer_loaded, model_loaded, news_api_key>>
    /\ UNCHANGED scrape_vars
    /\ UNCHANGED <<loading, reader, analysis_history>>
\* execute, lines 327-334: store in history and return
Store ==
    /\ pc = "acted"
    /\ history' = Append(history, state.recommendation)
    /\ pc' = "done"
    /\ UNCHANGED <<stock_ticker, budget, state, scorer_failed, invoked, runs,
                   tokenizer_loaded, model_loaded, news_api_key>>
    /\ UNCHANGED scrape_vars
    /\ UNCHANGED <<loading, reader, analysis_history>>

Next ==
    \/ Observe
    \/ ScrapeReddit
    \/ ScrapeTwitter
    \/ ScrapeNews
    \/ ReturnNoData
    \/ Clean
    \/ Predict
    \/ Act
    \/ Store

Spec == Init /\ [][Next]_vars

(***************************************************************************)
(* act called on its own: the state dict holds a score from a grid around  *)
(* the thresholds and none of the optional keys.                           *)
(***************************************************************************)
ScoreGrid ==
    {k * BuyThreshold + d : k \in (-MaxScoreSteps)..MaxScoreSteps, d \in {-1, 0, 1}}

InitAct ==
    /\ pc = "predicted"
    /\ stock_ticker = <<"A","B">>
    /\ budget \in {c.budget : c \in Calls}
    /\ \E s \in ScoreGrid :
        state = [stock_ticker    |-> <<"A","B">>,
                 timestamp       |-> 1,
                 raw_data_count  |-> 0,
                 sentiment_score |-> s]
    /\ all_data = <<>>
    /\ reddit_data = <<>>
    /\ twitter_data = <<>>
    /\ news_data = <<>>
    /\ failed = {}
    /\ scorer_failed = 0
    /\ invoked = <<>>
    /\ history = <<>>
    /\ tokenizer_loaded = FALSE
    /\ model_loaded = FALSE
    /\ news_api_key = TRUE
    /\ runs = 0
    /\ loading = "unasked"
    /\ reader = NoList
    /\ analysis_history = <<>>

NextAct == Act

SpecAct == InitAct /\ [][NextAct]_vars

(***************************************************************************)
(* Properties.                                                             *)
(***************************************************************************)
HasRecommendation == "recommendation" \in DOMAIN state
Rec == state.recommendation
Predicted == pc \in {"predicted", "acted", "done"} /\ "sentiment_score" \in DOMAIN state
Acted == pc \in {"acted", "done"} /\ HasRecommendation /\ Rec.action # "ERROR"

\* C1: act answers BUY exactly when the score is above 0.15, SELL exactly
\* when it is below -0.15 and HOLD otherwise; 0.15 and -0.15 give HOLD.
C1_Thresholds ==
    pc = "acted" =>
        /\ Rec.action = "BUY" <=> state.sentiment_score > 1500
        /\ Rec.action = "SELL" <=> state.sentiment_score < -1500
        /\ Rec.action = "HOLD" <=> (state.sentiment_score >= -1500
                                    /\ state.sentiment_score <= 1500)
C1_Witness ==
    pc = "acted" /\ state.sentiment_score = 1500 /\ Rec.action = "HOLD"

\* C2: in the HOLD band, -0.15 <= score <= 0.15, act leaves investment_amount
\* and investment_percent at 0 for every budget, whatever tanh(score) is.
C2_HoldBandClosure ==
    (pc = "acted" /\ state.sentiment_score >= -1500 /\ state.sentiment_score <= 1500) =>
        /\ Rec.investment_amount = 0
        /\ Rec.investment_percent = 0
C2_Witness ==
    /\ pc = "acted"
    /\ state.sentiment_score = -1500
    /\ Tanh(state.sentiment_score) # 0
    /\ budget # 0
    /\ Rec.investment_amount = 0
    /\ Rec.investment_percent = 0

\* C3: the score predict stores is a finite number, it is 0 exactly when
\* positive_count = negative_count and positive exactly when
\* positive_count > negative_count.
C3_ScoreSign ==
    Predicted =>
        /\ state.positive_count >= 0
        /\ state.negative_count >= 0
        /\ state.sentiment_score \in Int
        /\ state.sentiment_score = 0 <=> state.positive_count = state.negative_count
        /\ state.sentiment_score > 0 <=> state.positive_count > state.negative_count
C3_Witness ==
    /\ pc = "predicted"
    /\ state.negative_count > 0
    /\ state.positive_count > state.negative_count
    /\ state.sentiment_score > 0

\* C4: when scrape found no data, execute returns an ERROR recommendation
\* without score or confidence, and clean, predict and act were not called.
C4_EmptyCorpusError ==
    (pc = "done" /\ Len(state.raw_data) = 0) =>
        /\ HasRecommendation
        /\ Rec.action = "ERROR"
        /\ "reasoning" \in DOMAIN Rec
        /\ DOMAIN Rec \cap {"sentiment_score", "confidence"} = {}
        /\ \A i \in DOMAIN invoked : invoked[i] \notin {"clean", "predict", "act"}
C4_Witness ==
    /\ pc = "done"
    /\ Len(state.raw_data) = 0
    /\ failed = Adapters
    /\ Rec.action = "ERROR"

\* C5: when the scorer raises in any batch, the signal is score 0 with both
\* counts 0 and nothing of the batches that succeeded, and the
\* recommendation is HOLD with investment_amount 0.
C5_FailClosed ==
    (scorer_failed # 0 /\ Predicted) =>
        /\ state.sentiment_score = 0
        /\ state.positive_count = 0
        /\ state.negative_count = 0
        /\ state.sentiment_scores = <<>>
        /\ Acted => (Rec.action = "HOLD" /\ Rec.investment_amount = 0)
C5_Witness ==
    /\ pc = "done"
    /\ scorer_failed = 2
    /\ model_loaded
    /\ \E i \in 1..32 : Classify(state.cleaned_texts[i])[3] > 50
    /\ Rec.action = "HOLD"

\* C6: the corpus scrape_all returns is the reddit items, then the twitter
\* items, then the news items, each group as its adapter returned it.
C6_CorpusOrder ==
    pc = "scraped" =>
        /\ state.raw_data = reddit_data \o twitter_data \o news_data
        /\ state.raw_data_count = Len(reddit_data) + Len(twitter_data) + Len(news_data)
C6_Witness ==
    /\ pc = "scraped"
    /\ Len(reddit_data) >= 2
    /\ Len(twitter_data) = 1
    /\ Len(news_data) = 0
    /\ state.raw_data = <<reddit_data[1], reddit_data[2]>>
                        \o SubSeq(reddit_data, 3, Len(reddit_data)) \o <<twitter_data[1]>>

\* C7: an adapter whose provider failed contributes no item, and the corpus
\* still holds every item of each adapter that did not fail.
C7_FailedAdapterEmpty ==
    /\ "reddit" \in failed => reddit_data = <<>>
    /\ "twitter" \in failed => twitter_data = <<>>
    /\ "news" \in failed => news_data = <<>>
    /\ pc = "scraped" =>
        /\ BySource(state.raw_data, {"reddit"}) = reddit_data
        /\ BySource(state.raw_data, {"twitter"}) = twitter_data
        /\ BySource(state.raw_data, {"news"}) = news_data
C7_Witness ==
    /\ pc = "scraped"
    /\ "reddit" \in failed
    /\ "news" \in failed
    /\ Len(twitter_data) > 0
    /\ state.raw_data = twitter_data

\* C8: the reddit references are the first min(10, k) of the k reddit items
\* of the corpus, in corpus order.
C8_ForumRefsCapped ==
    Acted =>
        LET refs == Rec.references.reddit
            k    == Len(reddit_data)
        IN  /\ Len(refs) = IF k < 10 THEN k ELSE 10
            /\ \A i \in 1..Len(refs) : refs[i] = state.raw_data[i]
                                       /\ refs[i].source = "reddit"
C8_Witness ==
    /\ pc = "done"
    /\ Rec.action # "ERROR"
    /\ Len(reddit_data) > 10
    /\ Len(Rec.references.reddit) = 10
    /\ Rec.references.reddit = SubSeq(state.raw_data, 1, 10)

\* C9: the references of each source are the first min(10, k) corpus items
\* of that source's adapter; a corpus with news items has news references.
C9_RefsPartitionBySource ==
    Acted =>
        /\ Len(Rec.references.reddit) = (IF Len(reddit_data) < 10 THEN Len(reddit_data) ELSE 10)
        /\ Len(Rec.references.twitter) = (IF Len(twitter_data) < 10 THEN Len(twitter_data) ELSE 10)
        /\ Len(Rec.references.news) = (IF Len(news_data) < 10 THEN Len(news_data) ELSE 10)

\* C10: every text the clean stage passes to predict has at least 10
\* characters.
C10_MinCleanedLength ==
    "cleaned_texts" \in DOMAIN state =>
        \A i \in DOMAIN state.cleaned_texts : Len(state.cleaned_texts[i]) >= 10

(***************************************************************************)
(* clean_single_text called on a text, and again on what it returned.      *)
(***************************************************************************)
MaxTextLen == 4
\* the characters of the texts: letters of both cases, a space, a character
\* remove_special_chars drops and the mark of a mention
TextChars == {"W", "w", "x", " ", "$", "@"}
RECURSIVE TextsOfLen(_)
TextsOfLen(n) ==
    IF n = 0 THEN {<<>>}
    ELSE {Append(t, c) : t \in TextsOfLen(n - 1), c \in TextChars}
Texts == UNION {TextsOfLen(n) : n \in 0..MaxTextLen}

InitClean ==
    /\ pc = "text"
    /\ \E x \in Texts : state = [text |-> x]
    /\ stock_ticker = <<>>
    /\ budget = 0
    /\ all_data = <<>>
    /\ reddit_data = <<>>
    /\ twitter_data = <<>>
    /\ news_data = <<>>
    /\ failed = {}
    /\ scorer_failed = 0
    /\ invoked = <<>>
    /\ history = <<>>
    /\ tokenizer_loaded = FALSE
    /\ model_loaded = FALSE
    /\ news_api_key = FALSE
    /\ runs = 0
    /\ loading = "unasked"
    /\ reader = NoList
    /\ analysis_history = <<>>

\* item['cleaned_text'] = self.clean_single_text(item['text'])
CleanText ==
    /\ pc = "text"
    /\ state' = Put(state, "cleaned_text", clean_single_text(state.text))
    /\ pc' = "text_cleaned"
    /\ UNCHANGED <<stock_ticker, budget, scorer_failed, invoked, runs>>
    /\ UNCHANGED scrape_vars
    /\ UNCHANGED agent_vars
    /\ UNCHANGED <<loading, reader, analysis_history>>

\* clean_single_text called on a text that clean_single_text returned
CleanCleaned ==
    /\ pc = "text_cleaned"
    /\ state' = Put(state, "recleaned_text", clean_single_text(state.cleaned_text))
    /\ pc' = "text_recleaned"
    /\ UNCHANGED <<stock_ticker, budget, scorer_failed, invoked, runs>>
    /\ UNCHANGED scrape_vars
    /\ UNCHANGED agent_vars
    /\ UNCHANGED <<loading, reader, analysis_history>>

NextClean ==
    \/ CleanText
    \/ CleanCleaned

SpecClean == InitClean /\ [][NextClean]_vars

\* C11: clean_single_text is idempotent, cleaning a cleaned text returns it
\* unchanged: clean(clean(x)) = clean(x) for every text x.
C11_Idempotent ==
    pc = "text_recleaned" => state.recleaned_text = state.cleaned_text

\* C12: whatever the outcome (BUY, SELL, HOLD or ERROR), the ticker of the
\* recommendation execute returns is the upper case of the ticker it was
\* called with.
C12_TickerUppercased ==
    (pc = "done" /\ HasRecommendation) => Rec.stock_ticker = Upper(stock_ticker)

\* C13: with a budget of zero or less, act allocates nothing, whatever the
\* score: investment_amount is 0 for BUY and SELL too.
C13_NonPositiveBudgetZero ==
    (pc = "acted" /\ budget <= 0) => Rec.investment_amount = 0

\* how far a run has come
StageRank(p) ==
    CASE p = "idle"           -> 0
      [] p = "scrape_reddit"  -> 1
      [] p = "scrape_twitter" -> 2
      [] p = "scrape_news"    -> 3
      [] p = "scraped"        -> 4
      [] p = "cleaned"        -> 5
      [] p = "predicted"      -> 6
      [] p = "acted"          -> 7
      [] p = "done"           -> 8

\* C14: whichever adapters and whichever scorer step fail, every step of
\* execute takes it to a later stage, every stage leaves the keys the next
\* one reads, and the state execute returns holds a recommendation with a
\* ticker, a reasoning and an action among BUY, SELL, HOLD and ERROR.
C14_AlwaysRecommendation ==
    /\ [](/\ pc \in {"scraped", "cleaned"} => "raw_data" \in DOMAIN state
          /\ pc = "cleaned" => "cleaned_texts" \in DOMAIN state
          /\ pc = "predicted" =>
              {"sentiment_score", "positive_count", "negative_count"} \subseteq DOMAIN state
          /\ pc = "done" =>
              /\ HasRecommendation
              /\ {"stock_ticker", "action", "reasoning"} \subseteq DOMAIN Rec
              /\ Rec.action \in {"BUY", "SELL", "HOLD", "ERROR"}
              /\ Rec.action = "ERROR" <=> Len(state.raw_data) = 0)
    /\ [][StageRank(pc') > StageRank(pc)]_vars
C14_Witness ==
    /\ pc = "done"
    /\ failed = {"reddit", "news"}
    /\ scorer_failed # 0
    /\ Rec.action = "HOLD"

\* C15: a BUY, SELL or HOLD recommendation has confidence in [0, 1] and
\* investment_percent in [-100, 100]; the confidence is 0.5 for HOLD and
\* |tanh(score)| = |investment_percent| / 100 for BUY and SELL.
C15_ConfidenceRange ==
    pc = "acted" =>
        /\ Rec.confidence >= 0 /\ Rec.confidence <= 10000
        /\ Rec.investment_percent >= -100 * 10000
        /\ Rec.investment_percent <= 100 * 10000
        /\ Rec.action = "HOLD" => Rec.confidence = 5000
        /\ Rec.action \in {"BUY", "SELL"} =>
            /\ Rec.confidence = Abs(Tanh(state.sentiment_score))
            /\ Rec.confidence * 100 = Abs(Rec.investment_percent)
C15_Witness ==
    /\ pc = "acted"
    /\ Rec.action = "SELL"
    /\ Rec.confidence > 5000
    /\ Rec.investment_percent = -100 * Rec.confidence

\* C16, as stated: with a positive budget investment_amount has the sign of
\* the score, positive for a positive score, negative for a negative one
\* and zero for zero; a zero budget gives a zero amount.
C16_AmountSignOfScore ==
    Acted =>
        /\ budget > 0 =>
            /\ state.sentiment_score > 0 => Rec.investment_amount > 0
            /\ state.sentiment_score < 0 => Rec.investment_amount < 0
            /\ state.sentiment_score = 0 => Rec.investment_amount = 0
        /\ budget = 0 => Rec.investment_amount = 0

\* C16, amended: with a positive budget investment_amount is positive when
\* the score is above 0.15, negative when it is below -0.15 and zero in
\* between; a zero budget gives a zero amount.
C16_AmountSignOutsideHold ==
    Acted =>
        /\ budget > 0 =>
            /\ state.sentiment_score > 1500 => Rec.investment_amount > 0
            /\ state.sentiment_score < -1500 => Rec.investment_amount < 0
            /\ (state.sentiment_score >= -1500 /\ state.sentiment_score <= 1500)
                   => Rec.investment_amount = 0
        /\ budget = 0 => Rec.investment_amount = 0
C16_Witness ==
    /\ pc = "acted"
    /\ budget > 0
    /\ state.negative_count > state.positive_count
    /\ state.positive_count > 0
    /\ state.sentiment_score < -1500
    /\ Rec.investment_amount < 0

(***************************************************************************)
(* Several execute calls on one agent, one after the other, and a caller   *)
(* of get_history.  The providers answer from a few of their worlds.       *)
(***************************************************************************)
MaxRuns == 2

RunCalls == {c \in Calls : c.budget > 0}
RunRedditWorlds ==
    {w \in RedditWorlds : w.perSub <= 1 /\ w.kind = "pos" /\ w.failAt <= 1}
RunTwitterWorlds ==
    {w \in TwitterWorlds : w.n <= 1 /\ w.kind = "neg" /\ ~w.fail}
RunNewsWorlds ==
    {w \in NewsWorlds : w.http = 200 /\ w.status = "ok" /\ w.n = 0
                        /\ w.badDateAt = 0 /\ ~w.raises}

\* execute is called on an agent that is in no run
ObserveRun ==
    /\ pc \in {"idle", "done"}
    /\ runs < MaxRuns
    /\ ExecuteCalled(RunCalls)

ScrapeRedditRun == ScrapeRedditIn(RunRedditWorlds)
ScrapeTwitterRun == ScrapeTwitterIn(RunTwitterWorlds)
ScrapeNewsRun == ScrapeNewsIn(RunNewsWorlds)

\* get_history, line 338: return self.history, the list object itself
get_history == "self.history"

\* a caller calls get_history and keeps what it returns
GetHistory ==
    /\ reader' = [object |-> get_history, at_return |-> history]
    /\ UNCHANGED <<pc, stock_ticker, budget, state, scorer_failed, invoked,
                   runs, loading, analysis_history>>
    /\ UNCHANGED scrape_vars
    /\ UNCHANGED agent_vars

\* the items of the list a caller holds, as the caller reads them now
ListOf(r) ==
    IF r.object = "self.history" THEN history ELSE r.at_return

NextRuns ==
    \/ ObserveRun
    \/ ScrapeRedditRun
    \/ ScrapeTwitterRun
    \/ ScrapeNewsRun
    \/ ReturnNoData
    \/ Clean
    \/ Predict
    \/ Act
    \/ Store
    \/ GetHistory

SpecRuns == Init /\ [][NextRuns]_vars

\* C17: after any sequence of execute calls the history holds one record
\* for every recommendation a run produced, ERROR ones included, in the
\* order the runs completed.
C17_HistoryComplete ==
    pc = "done" =>
        /\ Len(history) = runs
        /\ history[runs] = Rec

\* C18: a list obtained from get_history is not changed by a later append:
\* it holds what the history held when get_history returned.
C18_SnapshotUnchanged ==
    reader.object # "none" => ListOf(reader) = reader.at_return

\* C19: a run whose model loading and batches answer gives the score and
\* counts an agent with no earlier run gives for the same texts, whatever
\* the earlier runs of this agent were.
C19_RunIndependent ==
    (/\ pc = "predicted"
     /\ loading = "all"
     /\ ~(tokenizer_loaded /\ model_loaded /\ scorer_failed # 0)) =>
        LET fresh == PredictKeys(state.cleaned_texts, TRUE, 0)
        IN  /\ state.sentiment_score = fresh.sentiment_score
            /\ state.positive_count = fresh.positive_count
            /\ state.negative_count = fresh.negative_count

\* C20: the three adapter fetches run concurrently: while the reddit fetch
\* has not completed, the twitter fetch and the news fetch can start.
C20_FetchesConcurrent ==
    pc = "scrape_reddit" => (ENABLED ScrapeTwitter /\ ENABLED ScrapeNews)

\* C21: clean starts only when all three adapter fetches have returned; for
\* a non-empty corpus clean, predict and act are each called once, in that
\* order, and the history is appended to only after act.
C21_StageOrder ==
    /\ [](/\ (pc = "done" /\ Len(state.raw_data) > 0) =>
                invoked = <<"observe", "scrape", "clean", "predict", "act">>
          /\ pc = "acted" => invoked = <<"observe", "scrape", "clean", "predict", "act">>
          /\ pc = "predicted" => invoked = <<"observe", "scrape", "clean", "predict">>
          /\ pc = "cleaned" => invoked = <<"observe", "scrape", "clean">>)
    /\ [][/\ (invoked' # invoked /\ invoked'[Len(invoked')] = "clean") =>
                /\ pc = "scraped"
                /\ all_data = reddit_data \o twitter_data \o news_data
                /\ state.raw_data = all_data
          /\ history' # history =>
                /\ invoked[Len(invoked)] = "act"
                /\ history' = Append(history, Rec)]_vars
C21_Witness ==
    /\ pc = "done"
    /\ Len(reddit_data) > 0
    /\ Len(twitter_data) > 0
    /\ Len(news_data) > 0
    /\ invoked = <<"observe", "scrape", "clean", "predict", "act">>
    /\ history = <<Rec>>

(***************************************************************************)
(* One execute call in which a provider may never answer.  The steps the   *)
(* interpreter takes by itself do happen, and so does the return of the    *)
(* news call, which has a timeout of 10 seconds; the return of the reddit  *)
(* call and of the twitter call is up to the provider, and no deadline is  *)
(* set on them.                                                            *)
(***************************************************************************)
NextPending ==
    \/ Observe
    \/ ScrapeRedditRun
    \/ ScrapeTwitterRun
    \/ ScrapeNewsRun
    \/ ReturnNoData
    \/ Clean
    \/ Predict
    \/ Act
    \/ Store

\* what happens without waiting for a provider that has no deadline
OwnSteps ==
    \/ Observe
    \/ ScrapeNewsRun
    \/ ReturnNoData
    \/ Clean
    \/ Predict
    \/ Act
    \/ Store

SpecPending == Init /\ [][NextPending]_vars /\ WF_vars(OwnSteps)

\* C22: every run eventually returns: a provider that never answers cannot
\* keep execute from returning.
C22_EventuallyReturns == (pc # "idle") ~> (pc = "done")

(***************************************************************************)
(* The batch loop of predict and the counts, on texts of every length up   *)
(* to MaxTexts.  The texts cycle through the four answers of the           *)
(* classifier.                                                             *)
(***************************************************************************)
MaxTexts == 65

\* the k-th text of cleaned_texts
TextNo(k) ==
    CASE k % 4 = 1 -> <<"g","o","o","d">>
      [] k % 4 = 2 -> <<"b","a","d">>
      [] k % 4 = 3 -> <<"o","k">>
      [] OTHER     -> <<"e","v","e","n">>

InitBatch ==
    /\ pc = "batching"
    /\ \E n \in 0..MaxTexts :
        state = [cleaned_texts |-> [k \in 1..n |-> TextNo(k)],
                 i             |-> 0,
                 batches       |-> <<>>,
                 all_probs     |-> <<>>]
    /\ stock_ticker = <<>>
    /\ budget = 0
    /\ all_data = <<>>
    /\ reddit_data = <<>>
    /\ twitter_data = <<>>
    /\ news_data = <<>>
    /\ failed = {}
    /\ scorer_failed = 0
    /\ invoked = <<>>
    /\ history = <<>>
    /\ tokenizer_loaded = TRUE
    /\ model_loaded = TRUE
    /\ news_api_key = FALSE
    /\ runs = 0
    /\ loading = "unasked"
    /\ reader = NoList
    /\ analysis_history = <<>>

\* one pass of the loop, lines 137-140; batches keeps the batches the
\* classifier was called with
ScoreBatch ==
    /\ pc = "batching"
    /\ state.i < Len(state.cleaned_texts)
    /\ LET batch == Batch(state.cleaned_texts, state.i \div BATCH_SIZE + 1)
       IN  state' = [state EXCEPT
                        !.i = @ + BATCH_SIZE,
                        !.batches = Append(@, batch),
                        !.all_probs = Extend(@, predict_batch_scores(batch))]
    /\ UNCHANGED <<pc, stock_ticker, budget, scorer_failed, invoked, runs>>
    /\ UNCHANGED scrape_vars
    /\ UNCHANGED agent_vars
    /\ UNCHANGED <<loading, reader, analysis_history>>

\* lines 142-159 after the loop, or the except branch when all_probs is
\* empty and all_probs[:, 2] raises
CountProbs ==
    /\ pc = "batching"
    /\ state.i >= Len(state.cleaned_texts)
    /\ LET keys == IF Len(state.all_probs) = 0 THEN PredictOnError(state.all_probs)
                   ELSE Aggregate(state.all_probs)
       IN  state' = Put(Put(Put(Put(state,
                        "sentiment_scores", keys.sentiment_scores),
                        "sentiment_score", keys.sentiment_score),
                        "positive_count", keys.positive_count),
                        "negative_count", keys.negative_count)
    /\ pc' = "counted"
    /\ UNCHANGED <<stock_ticker, budget, scorer_failed, invoked, runs>>
    /\ UNCHANGED scrape_vars
    /\ UNCHANGED agent_vars
    /\ UNCHANGED <<loading, reader, analysis_history>>

NextBatch ==
    \/ ScoreBatch
    \/ CountProbs

SpecBatch == InitBatch /\ [][NextBatch]_vars

\* the texts of a sequence of batches, one after the other
RECURSIVE Flatten(_)
Flatten(bs) == IF Len(bs) = 0 THEN <<>> ELSE bs[1] \o Flatten(Tail(bs))

\* C23: the batches are consecutive groups of at most 32 texts that cover
\* every text once, in input order, and the concatenated probabilities are
\* as many as the texts, the i-th being that of the i-th text, for every
\* number of texts.
C23_BatchAlignment ==
    /\ pc = "batching" =>
        /\ \A b \in DOMAIN state.batches :
              Len(state.batches[b]) >= 1 /\ Len(state.batches[b]) <= 32
        /\ \A b \in 1..(Len(state.batches) - 1) : Len(state.batches[b]) = 32
        /\ Flatten(state.batches)
              = SubSeq(state.cleaned_texts, 1, Len(Flatten(state.batches)))
        /\ Len(state.all_probs) = Len(Flatten(state.batches))
        /\ \A k \in DOMAIN state.all_probs :
              state.all_probs[k] = Classify(state.cleaned_texts[k])
    /\ pc = "counted" =>
        /\ Flatten(state.batches) = state.cleaned_texts
        /\ Len(state.all_probs) = Len(state.cleaned_texts)
        /\ \A k \in DOMAIN state.cleaned_texts :
              state.all_probs[k] = Classify(state.cleaned_texts[k])
C23_Witness ==
    /\ pc = "counted"
    /\ Len(state.cleaned_texts) = 65
    /\ Len(state.batches) = 3
    /\ Len(state.batches[3]) = 1
    /\ state.all_probs[65] = Classify(state.cleaned_texts[65])
    /\ state.all_probs[64] # state.all_probs[65]

\* C24: a text counts as positive when its positive probability is above
\* 0.5 and as negative when its negative probability is above 0.5; no text
\* counts as both, and positive_count + negative_count is at most the
\* number of texts scored.
C24_ExclusiveCounts ==
    (pc = "counted" /\ Len(state.cleaned_texts) > 0) =>
        LET pos == {k \in DOMAIN state.all_probs : state.all_probs[k][3] > 50}
            neg == {k \in DOMAIN state.all_probs : state.all_probs[k][1] > 50}
        IN  /\ state.positive_count = Cardinality(pos)
            /\ state.negative_count = Cardinality(neg)
            /\ pos \cap neg = {}
            /\ state.positive_count + state.negative_count <= Len(state.cleaned_texts)
C24_Witness ==
    /\ pc = "counted"
    /\ Len(state.cleaned_texts) = 64
    /\ state.all_probs[64] = <<50, 0, 50>>
    /\ state.positive_count = 16
    /\ state.negative_count = 16

\* C25: every item of the corpus has a non-empty text: a reddit post with
\* empty title and empty body (its text would be the separating space
\* alone) and a tweet with empty text are dropped by their adapters.
C25_TextNonEmpty ==
    pc = "scraped" =>
        \A i \in DOMAIN state.raw_data :
            /\ Len(state.raw_data[i].text) > 0
            /\ state.raw_data[i].source = "reddit" => state.raw_data[i].text # <<" ">>

\* C26: the clean stage leaves every item of state['raw_data'] as the
\* adapter returned it, and the references are items as the adapters
\* returned them.
C26_RawItemsUnchanged ==
    /\ (pc \in {"cleaned", "predicted", "acted", "done"} /\ "raw_data" \in DOMAIN state) =>
            state.raw_data = all_data
    /\ Acted =>
            \A src \in DOMAIN Rec.references :
                \A i \in DOMAIN Rec.references[src] :
                    \E k \in DOMAIN all_data : Rec.references[src][i] = all_data[k]

\* C27: when the classifier call failed, the reasoning of the HOLD
\* recommendation differs from the reasoning act gives after a scoring that
\* succeeded with positive_count = negative_count = 0.
C27_FailureFlagged ==
    (Acted /\ scorer_failed # 0) =>
        /\ Rec.action = "HOLD"
        /\ Rec.reasoning #
              Recommend([stock_ticker     |-> state.stock_ticker,
                         timestamp        |-> state.timestamp,
                         raw_data_count   |-> state.raw_data_count,
                         sentiment_scores |-> <<0>>,
                         sentiment_score  |-> 0,
                         positive_count   |-> 0,
                         negative_count   |-> 0], budget).reasoning

\* C28: each adapter returns at most its limit (30 reddit, 50 twitter, 20
\* news), so the corpus of a run holds at most 100 items, and no reddit post
\* is in it twice.
C28_LimitsAndNoDuplicates ==
    pc = "scraped" =>
        /\ Len(reddit_data) <= 30
        /\ Len(twitter_data) <= 50
        /\ Len(news_data) <= 20
        /\ Len(state.raw_data) <= 100
        /\ \A i, j \in DOMAIN reddit_data : reddit_data[i] = reddit_data[j] => i = j

\* C29: a run whose corpus is not empty and whose every item cleans to the
\* empty text passes no text to the scorer and returns a HOLD
\* recommendation with score 0, counts 0, investment_amount 0 and
\* data_points the size of the corpus, which is appended to the history.
C29_AllJunkHolds ==
    (/\ pc \in {"predicted", "acted", "done"}
     /\ Len(state.raw_data) > 0
     /\ \A i \in DOMAIN state.raw_data : state.raw_data[i].cleaned_text = <<>>) =>
        /\ state.cleaned_texts = <<>>
        /\ state.sentiment_scores = <<>>
        /\ state.sentiment_score = 0
        /\ state.positive_count = 0
        /\ state.negative_count = 0
        /\ pc \in {"acted", "done"} =>
            /\ Rec.action = "HOLD"
            /\ Rec.sentiment_score = 0
            /\ Rec.positive_count = 0
            /\ Rec.negative_count = 0
            /\ Rec.investment_amount = 0
            /\ Rec.data_points = Len(state.raw_data)
        /\ pc = "done" => history = <<Rec>>
C29_Witness ==
    /\ pc = "done"
    /\ Len(state.raw_data) = 3
    /\ \A i \in DOMAIN state.raw_data : state.raw_data[i].cleaned_text = <<>>
    /\ tokenizer_loaded /\ model_loaded
    /\ Rec.action = "HOLD"
    /\ Rec.data_points = 3
    /\ history = <<Rec>>

(***************************************************************************)
(* The dashboard (app.py): each click on Analyze runs execute on the       *)
(* session's agent, stores the recommendation in analysis_history and      *)
(* shows it; the history section is rendered after that.                   *)
(***************************************************************************)
\* the ticker field is uppercased and the budget field is at least 100
AppCalls ==
    {[stock_ticker |-> Upper(c.stock_ticker), budget |-> c.budget] :
        c \in {d \in Calls : d.budget >= 100}}

\* lines 262-266: the button is clicked and execute is called
ClickAnalyze ==
    /\ pc \in {"idle", "rendered", "render_failed"}
    /\ runs < MaxRuns
    /\ ExecuteCalled(AppCalls)

\* lines 269-272: the recommendation execute returned is stored
StoreAnalysis ==
    /\ pc = "done"
    /\ analysis_history' = Append(analysis_history, state.recommendation)
    /\ pc' = "shown"
    /\ UNCHANGED <<stock_ticker, budget, state, scorer_failed, invoked, runs,
                   loading, reader>>
    /\ UNCHANGED scrape_vars
    /\ UNCHANGED agent_vars

\* the keys lines 394-401 read with record[...]
HistoryFields == {"stock_ticker", "action", "timestamp", "confidence", "sentiment_score"}

\* lines 392-410: the history section; a record without one of the keys
\* raises KeyError, outside any try
RenderHistory ==
    /\ pc = "shown"
    /\ pc' = IF \A i \in DOMAIN analysis_history :
                    HistoryFields \subseteq DOMAIN analysis_history[i]
             THEN "rendered" ELSE "render_failed"
    /\ UNCHANGED <<stock_ticker, budget, state, scorer_failed, invoked, runs,
                   loading, reader, analysis_history>>
    /\ UNCHANGED scrape_vars
    /\ UNCHANGED agent_vars

NextApp ==
    \/ ClickAnalyze
    \/ ScrapeRedditRun
    \/ ScrapeTwitterRun
    \/ ScrapeNewsRun
    \/ ReturnNoData
    \/ Clean
    \/ Predict
    \/ Act
    \/ Store
    \/ StoreAnalysis
    \/ RenderHistory

SpecApp == Init /\ [][NextApp]_vars

\* C30: after any sequence of analyses every record of analysis_history has
\* the fields the history section reads (stock_ticker, action, timestamp,
\* confidence, sentiment_score), and rendering the history does not fail.
C30_HistoryRenders ==
    /\ \A i \in DOMAIN analysis_history :
          {"stock_ticker", "action", "timestamp", "confidence", "sentiment_score"}
              \subseteq DOMAIN analysis_history[i]
    /\ pc # "render_failed"

====
